---------------------------- MODULE Spec2Model ----------------------------
(***************************************************************************)
(* A model of ddebug-rs: the diagnostic parser (builder.rs), the syntax    *)
(* graph and its builder (graph.rs), the node remover (remover.rs), the    *)
(* code generator (generator.rs) and the AST guided searcher (searcher.rs).*)
(*                                                                         *)
(* Strings are sequences of tokens: a token is a word or one punctuation   *)
(* character, and "-->" is one token whose last character is '>'.          *)
(* Option<T> is a sequence of length at most one: <<>> is None, <<x>> is   *)
(* Some(x).                                                                *)
(***************************************************************************)
EXTENDS Naturals, Sequences, FiniteSets, TLC

\* ------------------------------------------------------------------ bounds
\* Longest diagnostic stream (in lines) the parser is run on.
MaxLines == 3
\* Most vertices of the syntax graph of a source file, the root apart.
MaxVertices == 9
\* Most remove_node calls made on one graph before its text is generated.
MaxRemovals == 1

None == << >>
Some(x) == << x >>

\* ------------------------------------------------- builder.rs: the parser

\* str::split(sep).next(): the text before the first separator.
RECURSIVE SplitFirst(_, _)
SplitFirst(s, sep) ==
    IF s = << >> \/ Head(s) \in sep THEN << >>
    ELSE << Head(s) >> \o SplitFirst(Tail(s), sep)

\* The text after the first separator, None when there is no separator.
RECURSIVE AfterFirst(_, _)
AfterFirst(s, sep) ==
    IF s = << >> THEN None
    ELSE IF Head(s) \in sep THEN Some(Tail(s))
    ELSE AfterFirst(Tail(s), sep)

\* str::split(sep).nth(1): the piece between the first and the second
\* separator, None when the string holds no separator.
SplitNth1(s, sep) ==
    LET rest == AfterFirst(s, sep)
    IN  IF rest = None THEN None ELSE Some(SplitFirst(rest[1], sep))

\* The tokens that hold the character the split is on.
OpenBracket == {"["}
CloseBracket == {"]"}
Greater == {"-->"}
Colon == {":"}

\* starts_with("error") and starts_with("-->") on the trimmed line.
IsErrorLine(line) == line # << >> /\ Head(line) = "error"
IsLocationLine(line) == line # << >> /\ Head(line) = "-->"

\* line.split('[').nth(1).and_then(|l| l.split(']').next())
ErrorCode(line) ==
    LET piece == SplitNth1(line, OpenBracket)
    IN  IF piece = None THEN None ELSE Some(SplitFirst(piece[1], CloseBracket))

\* line.split('>').nth(1) ... .and_then(|l| l.split(':').next())
LocationPath(line) ==
    LET loc_info == SplitNth1(line, Greater)
    IN  IF loc_info = None THEN None ELSE Some(SplitFirst(loc_info[1], Colon))

BuildError(code, file, src) ==
    [error_code |-> code, source_file |-> file, error_src |-> src]

\* The state of the parser's loop: the pending record, the records pushed,
\* and whether the loop returned ParseError::UnmatchedLocationInformation.
ParserStart == [current_error |-> None, errors |-> << >>, failed |-> FALSE]

\* Variants of the loop body: one that leaves the pending record in place
\* after pushing it, one that pushes a pending record without a location
\* when the next error line arrives, and one that drops the pending record
\* at a line that is neither an error line nor a location line.
ParseLineKeepPending(st, line) ==
    IF IsErrorLine(line) THEN
        [st EXCEPT !.current_error = Some(BuildError(ErrorCode(line), None, line))]
    ELSE IF IsLocationLine(line) THEN
        IF st.current_error = None THEN [st EXCEPT !.failed = TRUE]
        ELSE [st EXCEPT
                !.errors = Append(@, [st.current_error[1] EXCEPT
                                         !.source_file = LocationPath(line)])]
    ELSE st
ParseLinePushPending(st, line) ==
    IF IsErrorLine(line) THEN
        [st EXCEPT !.errors = IF st.current_error = None THEN @
                              ELSE Append(@, st.current_error[1]),
                   !.current_error = Some(BuildError(ErrorCode(line), None, line))]
    ELSE IF IsLocationLine(line) THEN
        IF st.current_error = None THEN [st EXCEPT !.failed = TRUE]
        ELSE [st EXCEPT
                !.errors = Append(@, [st.current_error[1] EXCEPT
                                         !.source_file = LocationPath(line)]),
                !.current_error = None]
    ELSE st
ParseLineResetOnOther(st, line) ==
    IF IsErrorLine(line) THEN
        [st EXCEPT !.current_error = Some(BuildError(ErrorCode(line), None, line))]
    ELSE IF IsLocationLine(line) THEN
        IF st.current_error = None THEN [st EXCEPT !.failed = TRUE]
        ELSE [st EXCEPT
                !.errors = Append(@, [st.current_error[1] EXCEPT
                                         !.source_file = LocationPath(line)]),
                !.current_error = None]
    ELSE [st EXCEPT !.current_error = None]

\* A loop body that keeps the pending record when another error line comes.
ParseLineKeepFirstError(st, line) ==
    IF IsErrorLine(line) THEN
        IF st.current_error # None THEN st
        ELSE [st EXCEPT !.current_error = Some(BuildError(ErrorCode(line), None, line))]
    ELSE IF IsLocationLine(line) THEN
        IF st.current_error = None THEN [st EXCEPT !.failed = TRUE]
        ELSE [st EXCEPT
                !.errors = Append(@, [st.current_error[1] EXCEPT
                                         !.source_file = LocationPath(line)]),
                !.current_error = None]
    ELSE st

\* One turn of `for line in value.trim().lines()`.
ParseLine(st, line) ==
    IF IsErrorLine(line) THEN
        [st EXCEPT !.current_error = Some(BuildError(ErrorCode(line), None, line))]
    ELSE IF IsLocationLine(line) THEN
        IF st.current_error = None THEN [st EXCEPT !.failed = TRUE]
        ELSE [st EXCEPT
                !.errors = Append(@, [st.current_error[1] EXCEPT
                                         !.source_file = LocationPath(line)]),
                !.current_error = None]
    ELSE st

RECURSIVE ParseFrom(_, _)
ParseFrom(st, lines) ==
    IF st.failed \/ lines = << >> THEN st
    ELSE ParseFrom(ParseLine(st, Head(lines)), Tail(lines))

\* BuildErros::try_from: [ok |-> TRUE, errors |-> records] or the parse error.
TryFrom(value) ==
    LET st == ParseFrom(ParserStart, value)
    IN  IF st.failed THEN [ok |-> FALSE, errors |-> << >>]
        ELSE [ok |-> TRUE, errors |-> st.errors]

\* ------------------------------------------------- diagnostic lines
Brackets == { << >>, <<"[", "E1", "]">>, <<"[", "E2", "]">> }
Messages == { <<"a">>, <<"b">>, <<"a", "[", "u8", "]">> }
ErrorLines == { <<"error">> \o b \o <<":">> \o m : b \in Brackets, m \in Messages }
LocationLines == { <<"-->", p, ":", "4">> : p \in {"p", "q"} }
OtherLines == { <<"note">> }
Lines == ErrorLines \cup LocationLines \cup OtherLines

RECURSIVE SeqsUpTo(_, _)
SeqsUpTo(S, n) ==
    IF n = 0 THEN { << >> }
    ELSE LET shorter == SeqsUpTo(S, n - 1)
         IN  shorter \cup { Append(s, x) : s \in shorter, x \in S }

Streams == SeqsUpTo(Lines, MaxLines)


\* ------------------------------------------------- parser.rs: the syntax
\* A parsed file (syn::File) is its list of items; an item is a function
\* with a body of statements, or an item of another sort (a struct).
\* Statement shapes, with the syntax nodes syn::visit walks for each:
\*   "letarr"  let b = [1];   Local > LocalInit > ExprArray
\*   "assign"  a = 2;         ExprAssign
\*   "block"   { }            ExprBlock > Block
\*   "array"   [1];           ExprArray
StmtShapes == {"letarr", "assign", "block"}

\* The vertices the graph builder makes for a statement, an item, a file:
\* it tracks Local and ExprArray of "letarr", ExprAssign of "assign", Block
\* of "block", Item, ItemFn and Block of a function, Item of a struct.
StmtVertices(shape) == IF shape = "letarr" THEN 2 ELSE 1

RECURSIVE BodiesWithin(_)
BodiesWithin(vertices) ==
    { << >> } \cup
    UNION { { << shape >> \o rest : rest \in BodiesWithin(vertices - StmtVertices(shape)) }
            : shape \in { x \in StmtShapes : StmtVertices(x) <= vertices } }

RECURSIVE BodyVertices(_)
BodyVertices(body) ==
    IF body = << >> THEN 0 ELSE StmtVertices(Head(body)) + BodyVertices(Tail(body))
ItemVertices(item) == IF item.fn THEN 3 + BodyVertices(item.body) ELSE 1

ItemsWithin(vertices) ==
    (IF vertices < 1 THEN {} ELSE { [fn |-> FALSE, body |-> << >>] }) \cup
    (IF vertices < 3 THEN {}
     ELSE { [fn |-> TRUE, body |-> b] : b \in BodiesWithin(vertices - 3) })

\* The files whose graph has at most `vertices` vertices below its root.
RECURSIVE FilesWithin(_)
FilesWithin(vertices) ==
    { << >> } \cup
    UNION { { << i >> \o rest : rest \in FilesWithin(vertices - ItemVertices(i)) }
            : i \in ItemsWithin(vertices) }
Files == FilesWithin(MaxVertices)

\* The same with the array expression statement among the shapes.
AllShapes == StmtShapes \cup {"array"}

RECURSIVE AllBodiesWithin(_)
AllBodiesWithin(vertices) ==
    { << >> } \cup
    UNION { { << shape >> \o rest : rest \in AllBodiesWithin(vertices - StmtVertices(shape)) }
            : shape \in { x \in AllShapes : StmtVertices(x) <= vertices } }

AllItemsWithin(vertices) ==
    (IF vertices < 1 THEN {} ELSE { [fn |-> FALSE, body |-> << >>] }) \cup
    (IF vertices < 3 THEN {}
     ELSE { [fn |-> TRUE, body |-> b] : b \in AllBodiesWithin(vertices - 3) })

RECURSIVE AllFilesWithin(_)
AllFilesWithin(vertices) ==
    { << >> } \cup
    UNION { { << i >> \o rest : rest \in AllFilesWithin(vertices - ItemVertices(i)) }
            : i \in AllItemsWithin(vertices) }

\* AstNode: the kinds of syntax node the graph tracks.
AstNode == {"SourceRoot", "Item", "ItemFn", "Block", "LocalStmt",
            "ExprArray", "ExprAssign", "ExprLet"}

SynNode(kind, depth) == [kind |-> kind, depth |-> depth]

StmtWalk(shape, d) ==
    CASE shape = "letarr" -> << SynNode("LocalStmt", d), SynNode("LocalInit", d + 1),
                                SynNode("ExprArray", d + 2) >>
      [] shape = "assign" -> << SynNode("ExprAssign", d) >>
      [] shape = "block"  -> << SynNode("ExprBlock", d), SynNode("Block", d + 1) >>
      [] shape = "array"  -> << SynNode("ExprArray", d) >>

RECURSIVE BodyWalk(_, _)
BodyWalk(body, d) ==
    IF body = << >> THEN << >>
    ELSE StmtWalk(Head(body), d) \o BodyWalk(Tail(body), d)

ItemWalk(item) ==
    IF item.fn
    THEN << SynNode("Item", 1), SynNode("ItemFn", 2), SynNode("Block", 3) >>
         \o BodyWalk(item.body, 4)
    ELSE << SynNode("Item", 1), SynNode("ItemStruct", 2) >>

RECURSIVE ItemsWalk(_)
ItemsWalk(items) ==
    IF items = << >> THEN << >>
    ELSE ItemWalk(Head(items)) \o ItemsWalk(Tail(items))

\* The syntax nodes of a file in the order syn::visit::visit_file reaches
\* them (textual pre-order), each with its depth in the syntax tree.
Walk(file) == << SynNode("SourceRoot", 0) >> \o ItemsWalk(file)

\* ------------------------------------------------- graph.rs
\* A graph holds its live vertices and, for every vertex, the targets of its
\* outgoing edges in insertion order. Vertex weights (kind, payload) are
\* kept beside it: they are never mutated.
Reverse(s) == [i \in 1..Len(s) |-> s[Len(s) + 1 - i]]
Range(s) == { s[i] : i \in 1..Len(s) }

SyntaxTreeNew ==
    [n |-> 0, kind |-> << >>, payload |-> << >>, live |-> {}, out |-> << >>,
     root_node |-> None, current_node |-> None, open |-> << >>]

\* SyntaxTree::add_node / add_edge through insert_and_visit!, for the syntax
\* node at position `at` of the walk. `open` is the chain of saved
\* parent_node values of the calls that have not returned, innermost last.
RECURSIVE Returned(_, _)
Returned(open, depth) ==
    IF open # << >> /\ open[Len(open)].depth >= depth
    THEN Returned(SubSeq(open, 1, Len(open) - 1), depth)
    ELSE open

\* A builder that does not restore the parent it saved: the vertex added
\* last is the parent of the next.
InsertAndVisitNoRestore(t, node, at) ==
    LET ix == t.n
    IN  IF node.kind \notin AstNode THEN t
        ELSE [n |-> t.n + 1,
              kind |-> (ix :> node.kind) @@ t.kind,
              payload |-> (ix :> at) @@ t.payload,
              live |-> t.live \cup {ix},
              out |-> (ix :> << >>) @@
                      (IF t.current_node = None THEN t.out
                       ELSE [t.out EXCEPT ![t.current_node[1]] = Append(@, ix)]),
              root_node |-> t.root_node,
              current_node |-> Some(ix),
              open |-> Append(t.open, [depth |-> node.depth, ix |-> ix])]

\* A builder that adds the vertex and no edge to it.
InsertAndVisitNoEdge(t, node, at) ==
    LET open == Returned(t.open, node.depth)
        current == IF open = << >> THEN None ELSE Some(open[Len(open)].ix)
        ix == t.n
    IN  IF node.kind \notin AstNode THEN [t EXCEPT !.open = open, !.current_node = current]
        ELSE [n |-> t.n + 1,
              kind |-> (ix :> node.kind) @@ t.kind,
              payload |-> (ix :> at) @@ t.payload,
              live |-> t.live \cup {ix},
              out |-> (ix :> << >>) @@ t.out,
              root_node |-> t.root_node,
              current_node |-> Some(ix),
              open |-> Append(open, [depth |-> node.depth, ix |-> ix])]

InsertAndVisit(t, node, at) ==
    LET open == Returned(t.open, node.depth)
        current == IF open = << >> THEN None ELSE Some(open[Len(open)].ix)
        ix == t.n
    IN  IF node.kind \notin AstNode THEN [t EXCEPT !.open = open, !.current_node = current]
        ELSE [n |-> t.n + 1,
              kind |-> (ix :> node.kind) @@ t.kind,
              payload |-> (ix :> at) @@ t.payload,
              live |-> t.live \cup {ix},
              out |-> (ix :> << >>) @@
                      (IF current = None THEN t.out
                       ELSE [t.out EXCEPT ![current[1]] = Append(@, ix)]),
              root_node |-> t.root_node,
              current_node |-> Some(ix),
              open |-> Append(open, [depth |-> node.depth, ix |-> ix])]

RECURSIVE VisitFrom(_, _, _)
VisitFrom(t, walk, at) ==
    IF at > Len(walk) THEN t
    ELSE VisitFrom(InsertAndVisit(t, walk[at], at), walk, at + 1)

Min(S) == CHOOSE x \in S : \A y \in S : x <= y

\* What the builder holds when every call that is still open has returned,
\* each restoring the parent it saved.
AllReturned(t) ==
    LET open == Returned(t.open, 0)
    IN  [t EXCEPT !.open = open,
                  !.current_node = IF open = << >> THEN None
                                   ELSE Some(open[Len(open)].ix)]

\* GraphBuilder::visit_file: walk the file, then record the first vertex of
\* the graph as the root.
VisitFile(file) ==
    LET t == AllReturned(VisitFrom(SyntaxTreeNew, Walk(file), 1))
    IN  [t EXCEPT !.root_node = IF t.live = {} THEN None ELSE Some(Min(t.live))]

\* The syntax nodes of a generated text in the order visit_file reaches
\* them when the text is parsed: the items in the order of the text, each
\* an item, its function and block, then its statements with what they
\* hold. Each node is given with its place `at` in the walk of the source
\* the text was generated from, so that the payload of its vertex is the
\* payload of the source's vertex (payloads are compared as syntax).
RECURSIVE Below(_, _, _)
Below(walk, at, depth) ==
    IF at > Len(walk) \/ walk[at].depth <= depth THEN << >>
    ELSE << [kind |-> walk[at].kind, depth |-> walk[at].depth, at |-> at] >>
         \o Below(walk, at + 1, depth)

Placed(walk, at) == [kind |-> walk[at].kind, depth |-> walk[at].depth, at |-> at]

RECURSIVE StmtNodes(_, _)
StmtNodes(block, walk) ==
    IF block = << >> THEN << >>
    ELSE << Placed(walk, Head(block).node) >>
         \o Below(walk, Head(block).node + 1, walk[Head(block).node].depth)
         \o StmtNodes(Tail(block), walk)

RECURSIVE ItemNodes(_, _)
ItemNodes(text, walk) ==
    IF text = << >> THEN << >>
    ELSE << Placed(walk, Head(text).sig - 1), Placed(walk, Head(text).sig),
            Placed(walk, Head(text).sig + 1) >>
         \o StmtNodes(Head(text).block, walk)
         \o ItemNodes(Tail(text), walk)

TextNodes(text, walk) == << Placed(walk, 1) >> \o ItemNodes(text, walk)

\* GraphBuilder::visit_file on the parse of a generated text.
VisitText(text, walk) ==
    LET nodes == TextNodes(text, walk)
        t == AllReturned(VisitFrom(SyntaxTreeNew, nodes, 1))
    IN  [t EXCEPT !.root_node = IF t.live = {} THEN None ELSE Some(Min(t.live)),
                  !.payload = [ix \in DOMAIN t.payload |-> nodes[t.payload[ix]].at]]

\* StableGraph::neighbors and edges_directed(Outgoing): the targets of a
\* vertex's outgoing edges, most recently added edge first; none for a
\* vertex that is not in the graph.
Neighbors(g, a) == IF a \in g.live THEN Reverse(g.out[a]) ELSE << >>

\* StableGraph::remove_node: the vertex and every edge at it go; the other
\* edges keep their order.
GraphRemove(g, a) ==
    [live |-> g.live \ {a},
     out |-> [x \in DOMAIN g.out |->
                IF x = a THEN << >> ELSE SelectSeq(g.out[x], LAMBDA t : t # a)]]

\* petgraph::visit::Bfs
BfsNew(start) == [stack |-> << start >>, discovered |-> {start}]

RECURSIVE Discover(_, _)
Discover(bfs, succ) ==
    IF succ = << >> THEN bfs
    ELSE IF Head(succ) \in bfs.discovered THEN Discover(bfs, Tail(succ))
    ELSE Discover([stack |-> Append(bfs.stack, Head(succ)),
                   discovered |-> bfs.discovered \cup {Head(succ)}], Tail(succ))

\* A walker that returns the front vertex and leaves it in the queue.
BfsNextKeepsFront(bfs, g) ==
    IF bfs.stack = << >> THEN [node |-> None, bfs |-> bfs]
    ELSE LET node == Head(bfs.stack)
         IN  [node |-> Some(node), bfs |-> Discover(bfs, Neighbors(g, node))]

\* Bfs::next: [node |-> the vertex returned (an Option), bfs |-> the walker after].
BfsNext(bfs, g) ==
    IF bfs.stack = << >> THEN [node |-> None, bfs |-> bfs]
    ELSE LET node == Head(bfs.stack)
         IN  [node |-> Some(node),
              bfs |-> Discover([bfs EXCEPT !.stack = Tail(@)], Neighbors(g, node))]

RECURSIVE BfsCollect(_, _)
BfsCollect(bfs, g) ==
    LET r == BfsNext(bfs, g)
    IN  IF r.node = None THEN << >> ELSE << r.node[1] >> \o BfsCollect(r.bfs, g)

\* petgraph::visit::Dfs: the vertices from the top of the stack on, in the
\* order Dfs::next returns them; the neighbours not yet discovered are
\* pushed in the order neighbors gives them and the last pushed is next.
RECURSIVE DfsCollect(_, _, _)
DfsCollect(g, stack, discovered) ==
    IF stack = << >> THEN << >>
    ELSE LET node == stack[Len(stack)]
             rest == SubSeq(stack, 1, Len(stack) - 1)
         IN  IF node \in discovered THEN DfsCollect(g, rest, discovered)
             ELSE << node >> \o
                  DfsCollect(g,
                             rest \o SelectSeq(Neighbors(g, node),
                                               LAMBDA succ : succ \notin discovered),
                             discovered \cup {node})

\* ------------------------------------------------- remover.rs
RECURSIVE RemoveLoop(_, _, _)
RemoveLoop(g, bfs, removed_nodes) ==
    LET r == BfsNext(bfs, g)
    IN  IF r.node = None THEN [graph |-> g, removed_nodes |-> removed_nodes]
        ELSE RemoveLoop(GraphRemove(g, r.node[1]), r.bfs,
                        Append(removed_nodes, r.node[1]))

\* A removal of the vertex alone, its descendants left in the graph.
RemoveNodeAlone(g, node_ix) ==
    [graph |-> GraphRemove(g, node_ix), removed_nodes |-> << node_ix >>]

\* NodeRemover::remove_node
RemoveNode(g, node_ix) == RemoveLoop(g, BfsNew(node_ix), << >>)

\* ------------------------------------------------- generator.rs
\* A generated syntax value (GeneratedASTNode) is [variant, val]: a leaf's
\* val is the payload it was cloned from (a position of the walk), a
\* block's its statements, a function's and an item's the signature and the
\* statements of the body. A statement (syn::Stmt) is the kind of syntax
\* node it holds, the node, and whether it has a semicolon token.
Generated(variant, val) == [variant |-> variant, val |-> val]
Stmt(kind, node, semi) == [kind |-> kind, node |-> node, semi |-> semi]

\* TryFrom<GeneratedASTNode> for Stmt: Some(statement), or None for the
\* MismatchedASTConversion error.
StmtTryFrom(value) ==
    CASE value.variant = "LocalStmt" -> Some(Stmt("LocalStmt", value.val, TRUE))
      [] value.variant \in {"ExprArray", "ExprAssign", "ExprLet"} ->
            Some(Stmt(value.variant, value.val, FALSE))
      [] OTHER -> None

\* A collection that yields the statements last edge last.
RECURSIVE CollectStmtsBackwards(_, _)
CollectStmtsBackwards(targets, map) ==
    IF targets = << >> THEN [status |-> "ok", val |-> << >>]
    ELSE IF Head(targets) \notin DOMAIN map THEN [status |-> "panic", val |-> << >>]
    ELSE LET stmt == StmtTryFrom(map[Head(targets)])
             rest == CollectStmtsBackwards(Tail(targets), map)
         IN  IF stmt = None THEN [status |-> "err", val |-> << >>]
             ELSE IF rest.status # "ok" THEN rest
             ELSE [status |-> "ok", val |-> rest.val \o << stmt[1] >>]

\* The iterator chain over edges_directed(node_ix, Outgoing) with
\* .collect::<Result<Vec<_>, _>>(): indexing ix_to_ast_node panics on a
\* missing key, and the first conversion error ends the collection.
RECURSIVE CollectStmts(_, _)
CollectStmts(targets, map) ==
    IF targets = << >> THEN [status |-> "ok", val |-> << >>]
    ELSE IF Head(targets) \notin DOMAIN map THEN [status |-> "panic", val |-> << >>]
    ELSE LET stmt == StmtTryFrom(map[Head(targets)])
             rest == CollectStmts(Tail(targets), map)
         IN  IF stmt = None THEN [status |-> "err", val |-> << >>]
             ELSE IF rest.status # "ok" THEN rest
             ELSE [status |-> "ok", val |-> << stmt[1] >> \o rest.val]

RECURSIVE CollectItems(_, _)
CollectItems(targets, map) ==
    IF targets = << >> THEN [status |-> "ok", val |-> << >>]
    ELSE IF Head(targets) \notin DOMAIN map THEN [status |-> "panic", val |-> << >>]
    ELSE LET rest == CollectItems(Tail(targets), map)
         IN  IF map[Head(targets)].variant # "Item" THEN [status |-> "err", val |-> << >>]
             ELSE IF rest.status # "ok" THEN rest
             ELSE [status |-> "ok", val |-> << map[Head(targets)].val >> \o rest.val]

\* A search whose result is unwrapped when a Block is wanted: it panics
\* when no child is a Block.
RECURSIVE FindMapOrFail(_, _, _)
FindMapOrFail(targets, map, variant) ==
    IF targets = << >>
    THEN [status |-> IF variant = "Block" THEN "panic" ELSE "ok", val |-> None]
    ELSE IF Head(targets) \notin DOMAIN map THEN [status |-> "panic", val |-> None]
    ELSE IF map[Head(targets)].variant = variant
         THEN [status |-> "ok", val |-> Some(map[Head(targets)].val)]
    ELSE FindMapOrFail(Tail(targets), map, variant)

\* The iterator chain with .find_map(Result::ok): the first child whose
\* generated value is of the wanted variant; indexing panics on a missing key.
RECURSIVE FindMap(_, _, _)
FindMap(targets, map, variant) ==
    IF targets = << >> THEN [status |-> "ok", val |-> None]
    ELSE IF Head(targets) \notin DOMAIN map THEN [status |-> "panic", val |-> None]
    ELSE IF map[Head(targets)].variant = variant
         THEN [status |-> "ok", val |-> Some(map[Head(targets)].val)]
    ELSE FindMap(Tail(targets), map, variant)

Put(map, ix, value) == (ix :> value) @@ map

GenResult(status, text, map) == [status |-> status, text |-> text, map |-> map]

\* The body of `for node_ix in order`, on the vertices left in `order`.
\* status: "ok" (Ok(text)), "err" (a CodeGeneratorError) or "panic".
RECURSIVE GenerateLoop(_, _, _, _)
GenerateLoop(g, t, order, map) ==
    IF order = << >> THEN GenResult("err", << >>, map)
    ELSE
    LET node_ix == Head(order)
        kind == t.kind[node_ix]
        targets == Neighbors(g, node_ix)
    IN  CASE kind = "SourceRoot" ->
                LET items == CollectItems(targets, map)
                IN  GenResult(items.status, items.val, map)
          [] kind = "Item" ->
                LET item_fn == FindMap(targets, map, "ItemFn")
                IN  IF item_fn.status = "panic" THEN GenResult("panic", << >>, map)
                    ELSE IF item_fn.val = None THEN GenerateLoop(g, t, Tail(order), map)
                    ELSE GenerateLoop(g, t, Tail(order),
                                      Put(map, node_ix, Generated("Item", item_fn.val[1])))
          [] kind = "ItemFn" ->
                LET found == FindMap(targets, map, "Block")
                    block == IF found.val = None THEN << >> ELSE found.val[1]
                IN  IF found.status = "panic" THEN GenResult("panic", << >>, map)
                    ELSE GenerateLoop(g, t, Tail(order),
                            Put(map, node_ix,
                                Generated("ItemFn", [sig |-> t.payload[node_ix],
                                                     block |-> block])))
          [] kind = "Block" ->
                LET child_stmnts == CollectStmts(targets, map)
                IN  IF child_stmnts.status # "ok"
                    THEN GenResult(child_stmnts.status, << >>, map)
                    ELSE GenerateLoop(g, t, Tail(order),
                            Put(map, node_ix, Generated("Block", Reverse(child_stmnts.val))))
          [] OTHER ->
                GenerateLoop(g, t, Tail(order),
                             Put(map, node_ix, Generated(kind, t.payload[node_ix])))

\* prettyplease::unparse: the text of a file is its items in order, each
\* the signature it prints and the statements of its body, a statement being
\* the syntax node printed and whether a semicolon is printed after it
\* (white space is not part of the text). A statement with a semicolon
\* token is printed with it, and an assignment always is.
PrintStmt(stmt) == [node |-> stmt.node, semi |-> stmt.semi \/ stmt.kind = "ExprAssign"]
PrintItem(item) ==
    [sig |-> item.sig, block |-> [i \in 1..Len(item.block) |-> PrintStmt(item.block[i])]]
Unparse(items) == [i \in 1..Len(items) |-> PrintItem(items[i])]

\* A generator that makes no file of a root without items.
GenerateNoItemsFails(g, t, root_node_ix, map) ==
    LET r == GenerateLoop(g, t, Reverse(BfsCollect(BfsNew(root_node_ix), g)), map)
    IN  IF r.status = "ok" /\ r.text # << >>
        THEN GenResult("ok", Unparse(r.text), r.map)
        ELSE GenResult("err", << >>, r.map)

\* CodeGenerator::generate(graph, root_node_ix) with self.ix_to_ast_node = map.
Generate(g, t, root_node_ix, map) ==
    LET r == GenerateLoop(g, t, Reverse(BfsCollect(BfsNew(root_node_ix), g)), map)
    IN  IF r.status = "ok" THEN GenResult("ok", Unparse(r.text), r.map) ELSE r

\* ------------------------------------------------- the source file's text
\* The file syn::parse_str reads: the statements of a function body are the
\* syntax nodes right below its block, each with its semicolon.
RECURSIVE StmtsOf(_, _, _)
StmtsOf(walk, at, depth) ==
    IF at > Len(walk) \/ walk[at].depth < depth THEN << >>
    ELSE IF walk[at].depth = depth
         THEN << Stmt(walk[at].kind, at, walk[at].kind # "ExprBlock") >>
              \o StmtsOf(walk, at + 1, depth)
    ELSE StmtsOf(walk, at + 1, depth)

RECURSIVE ItemsOf(_, _)
ItemsOf(walk, at) ==
    IF at > Len(walk) THEN << >>
    ELSE IF walk[at].depth = 1
         THEN << [sig |-> at + 1,
                  block |-> IF walk[at + 1].kind = "ItemFn"
                            THEN StmtsOf(walk, at + 3, 4) ELSE << >>] >>
              \o ItemsOf(walk, at + 1)
    ELSE ItemsOf(walk, at + 1)

\* The text on disk that parses to `file`.
OrigText(file) == Unparse(ItemsOf(Walk(file), 2))

\* ------------------------------------------------- builder.rs: the oracle
\* What `cargo build | rg` can answer for one state of the project: the
\* spawn fails (io), or it prints a diagnostic stream.
Outcome(io, out) == [io |-> io, out |-> out]
LineE1a == <<"error", "[", "E1", "]", ":", "a">>
LineLocP == <<"-->", "p", ":", "4">>
LineLocQ == <<"-->", "q", ":", "4">>
Outcomes ==
    { Outcome(TRUE, << >>) } \cup
    { Outcome(FALSE, out) : out \in
        { << >>,
          << LineE1a, LineLocP >>,
          << LineE1a, LineLocQ >>,
          << LineLocP >>,
          << LineE1a, LineLocP, LineLocP >> } }

\* The path of the one source file of the project.
FilePath == <<"p">>

\* CodeBuilder::collect_errors on an answer of the build driver.
CollectErrors(outcome) ==
    IF outcome.io THEN [ok |-> FALSE, err |-> "IOError", errors |-> << >>]
    ELSE LET r == TryFrom(outcome.out)
         IN  IF r.ok THEN [ok |-> TRUE, err |-> "", errors |-> r.errors]
             ELSE [ok |-> FALSE, err |-> "CargoOutputParseError", errors |-> << >>]

\* Vec::first
First(errors) == IF errors = << >> THEN None ELSE Some(errors[1])

\* A comparison that also holds when the variant build has no error.
EqOrNoError(a, b) == a = b \/ a = None

\* variant_master_error == Some(master_error): #[derive(PartialEq)] on
\* BuildError, through Option<&BuildError>, compares every field.
OptionEq(a, b) == a = b

VARIABLES
    \* BuildErros::try_from run a line at a time (ParseSpec)
    stream,     \* the diagnostic stream handed to BuildErros::try_from
    pos,        \* the number of lines the parser's loop has consumed
    parser,     \* the parser's loop state
    parsed,     \* the returned value (an Option)
    \* the searcher
    pc,             \* "start", "loop" or "done"
    result,         \* what search returned: None while it runs
    file,           \* the syntax of the source file when search starts
    disk,           \* the text of the source file on disk
    oracle,         \* the answers of the build driver so far, by text on disk
    master_error,   \* Option<BuildError>
    tree,           \* the SyntaxTree the builder made (vertex weights, root)
    graph,          \* the master graph
    bfs,            \* the Bfs walker of the loop
    skip_set,
    ix_to_ast_node, \* CodeGenerator's table
    writes,         \* how often the source file was written
    calls,          \* how often collect_errors was called
    evals,          \* the candidates evaluated so far, oldest first
    \* the graph builder, the remover and the generator on their own
    removals,       \* the remove_node calls made: vertex, graph before, result
    reparsed,       \* the parse of the generated text (an Option)
    previous        \* the text an earlier search left on disk (an Option)

pvars == << stream, pos, parser, parsed >>
svars == << pc, result, file, disk, oracle, master_error, tree, graph, bfs,
            skip_set, ix_to_ast_node, writes, calls, evals >>
gvars == << removals, reparsed, previous >>
vars == << pvars, svars, gvars >>

\* The searcher's variables before search is called on `f`.
SearchStart(f) ==
    /\ pc = "start" /\ result = None
    /\ file = f
    /\ disk = OrigText(f)
    /\ oracle = << >> /\ master_error = None /\ tree = SyntaxTreeNew
    /\ graph = [live |-> {}, out |-> << >>] /\ bfs = BfsNew(0)
    /\ skip_set = {} /\ ix_to_ast_node = << >> /\ writes = 0 /\ calls = 0
    /\ evals = << >>
    /\ removals = << >> /\ reparsed = None /\ previous = None

Init ==
    /\ stream = << >> /\ pos = 0 /\ parser = ParserStart /\ parsed = None
    /\ \E f \in Files : SearchStart(f)

\* ------------------------------------------------- searcher.rs
\* What search returned (a SearcherError, Ok, or a panic) and where.
Exit(value, at) == [value |-> value, at |-> at]
Return(value, at) == pc' = "done" /\ result' = Some(Exit(value, at))

\* The build driver is deterministic: it answers as it did before for a
\* text it has seen, and anything for a new one.
Answers(text) == IF text \in DOMAIN oracle THEN { oracle[text] } ELSE Outcomes

\* search, lines 77-99, on what collect_errors returned and the SyntaxTree
\* of the file: where search goes, what it returns and the master error.
Decision(to, value, master) == [pc |-> to, result |-> value, master_error |-> master]
\* A search that goes on to the loop when the seed build has no error.
SeedDecisionNoErrorsGoesOn(variant_errors, t) ==
    LET master == First(variant_errors.errors)
    IN  IF ~variant_errors.ok
        THEN Decision("done", Some(Exit(variant_errors.err, "seed")), None)
        ELSE IF master # None /\ master[1].source_file = None
        THEN Decision("done", Some(Exit("ErrorSourceFileIsMissing", "seed")), master)
        ELSE IF master # None /\ master[1].source_file[1] # FilePath
        THEN Decision("done", Some(Exit("ErrorSourceFileNotFound", "seed")), master)
        ELSE IF t.root_node = None
        THEN Decision("done", Some(Exit("RootNodeFound", "seed")), master)
        ELSE Decision("loop", None, master)
SeedDecision(variant_errors, t) ==
    LET master == First(variant_errors.errors)
    IN  IF ~variant_errors.ok
        THEN Decision("done", Some(Exit(variant_errors.err, "seed")), None)
        ELSE IF master = None
        THEN Decision("done", Some(Exit("Ok", "seed")), None)
        ELSE IF master[1].source_file = None
        THEN Decision("done", Some(Exit("ErrorSourceFileIsMissing", "seed")), master)
        ELSE IF master[1].source_file[1] # FilePath
        THEN Decision("done", Some(Exit("ErrorSourceFileNotFound", "seed")), master)
        ELSE IF t.root_node = None
        THEN Decision("done", Some(Exit("RootNodeFound", "seed")), master)
        ELSE Decision("loop", None, master)

\* search, lines 75-104, on the answer of the seed build: the master error,
\* reading and parsing the file, building the graph, and the walker with the
\* root taken off.
SeedOn(answer, variant_errors) ==
    /\ pc = "start"
    /\ \E t \in { IF disk = OrigText(file) THEN VisitFile(file)
                   ELSE VisitText(disk, Walk(file)) } :
       \E d \in { SeedDecision(variant_errors, t) } :
            /\ oracle' = (disk :> answer) @@ oracle
            /\ calls' = calls + 1
            /\ pc' = d.pc
            /\ result' = d.result
            /\ master_error' = d.master_error
            /\ IF d.pc = "loop"
               THEN LET g == [live |-> t.live, out |-> t.out]
                    IN  /\ tree' = t
                        /\ graph' = g
                        /\ bfs' = BfsNext(BfsNew(t.root_node[1]), g).bfs
               ELSE UNCHANGED << tree, graph, bfs >>
    /\ UNCHANGED << file, disk, skip_set, ix_to_ast_node, writes, evals, gvars >>

Seed ==
    /\ \E answer \in Answers(disk) : SeedOn(answer, CollectErrors(answer))
    /\ UNCHANGED pvars

\* Lines 110-113: the walker returns a vertex of skip_set.
Skip ==
    /\ pc = "loop"
    /\ \E next \in { BfsNext(bfs, graph) } :
           /\ next.node # None
           /\ next.node[1] \in skip_set
           /\ bfs' = next.bfs
    /\ UNCHANGED << pvars, gvars, pc, result, file, disk, oracle, master_error, tree,
                    graph, skip_set, ix_to_ast_node, writes, calls, evals >>

\* One candidate of the loop: the vertex, how far its evaluation went
\* ("table" when generate panicked on a missing table entry, "generate"
\* when it returned a CodeGeneratorError, "build" when collect_errors
\* failed, "compared" otherwise), the first error of the variant build and
\* whether the removal was accepted.
Eval(node, step, variant, accepted) ==
    [node |-> node, step |-> step, variant |-> variant, accepted |-> accepted]

\* generate(..).unwrap(): a CodeGeneratorError panics as a missing table
\* entry does.
Panic(status) ==
    IF status = "err" THEN "Panic(CodeGeneratorError)" ELSE "Panic(NoEntry)"

\* A search whose removal is made on the master graph: a rejected
\* candidate stays removed.
SubmitKeepsClone(node_to_check, removal, text) ==
    /\ disk' = text
    /\ writes' = writes + 1
    /\ calls' = calls + 1
    /\ \E answer \in Answers(text) :
       \E variant_errors \in { CollectErrors(answer) } :
         LET variant_master_error == First(variant_errors.errors)
             accepted == OptionEq(variant_master_error, master_error)
         IN  /\ oracle' = (text :> answer) @@ oracle
             /\ IF ~variant_errors.ok
                THEN /\ Return(variant_errors.err, "loop")
                     /\ evals' = Append(evals, Eval(node_to_check, "build", None, FALSE))
                     /\ UNCHANGED << graph, skip_set >>
                ELSE /\ UNCHANGED << pc, result >>
                     /\ evals' = Append(evals,
                            Eval(node_to_check, "compared", variant_master_error, accepted))
                     /\ graph' = removal.graph
                     /\ skip_set' = skip_set \cup {node_to_check} \cup
                            (IF accepted THEN Range(removal.removed_nodes) ELSE {})

\* A search that puts in skip_set the candidate alone, not the vertices
\* removed with it.
SubmitSkipsCandidateOnly(node_to_check, removal, text) ==
    /\ disk' = text
    /\ writes' = writes + 1
    /\ calls' = calls + 1
    /\ \E answer \in Answers(text) :
       \E variant_errors \in { CollectErrors(answer) } :
         LET variant_master_error == First(variant_errors.errors)
             accepted == OptionEq(variant_master_error, master_error)
         IN  /\ oracle' = (text :> answer) @@ oracle
             /\ IF ~variant_errors.ok
                THEN /\ Return(variant_errors.err, "loop")
                     /\ evals' = Append(evals, Eval(node_to_check, "build", None, FALSE))
                     /\ UNCHANGED << graph, skip_set >>
                ELSE /\ UNCHANGED << pc, result >>
                     /\ evals' = Append(evals,
                            Eval(node_to_check, "compared", variant_master_error, accepted))
                     /\ graph' = IF accepted THEN removal.graph ELSE graph
                     /\ skip_set' = skip_set \cup {node_to_check}

\* A search that puts the removed vertices in skip_set after a rejection
\* too.
SubmitSkipsRejectedSubtree(node_to_check, removal, text) ==
    /\ disk' = text
    /\ writes' = writes + 1
    /\ calls' = calls + 1
    /\ \E answer \in Answers(text) :
       \E variant_errors \in { CollectErrors(answer) } :
         LET variant_master_error == First(variant_errors.errors)
             accepted == OptionEq(variant_master_error, master_error)
         IN  /\ oracle' = (text :> answer) @@ oracle
             /\ IF ~variant_errors.ok
                THEN /\ Return(variant_errors.err, "loop")
                     /\ evals' = Append(evals, Eval(node_to_check, "build", None, FALSE))
                     /\ UNCHANGED << graph, skip_set >>
                ELSE /\ UNCHANGED << pc, result >>
                     /\ evals' = Append(evals,
                            Eval(node_to_check, "compared", variant_master_error, accepted))
                     /\ graph' = IF accepted THEN removal.graph ELSE graph
                     /\ skip_set' = skip_set \cup {node_to_check} \cup
                            Range(removal.removed_nodes)

\* A search that writes the candidate text once its build has answered.
SubmitWritesAfterBuild(node_to_check, removal, text) ==
    /\ writes' = writes + 1
    /\ calls' = calls + 1
    /\ \E answer \in Answers(text) :
       \E variant_errors \in { CollectErrors(answer) } :
         LET variant_master_error == First(variant_errors.errors)
             accepted == OptionEq(variant_master_error, master_error)
         IN  /\ oracle' = (text :> answer) @@ oracle
             /\ IF ~variant_errors.ok
                THEN /\ Return(variant_errors.err, "loop")
                     /\ UNCHANGED disk
                     /\ evals' = Append(evals, Eval(node_to_check, "build", None, FALSE))
                     /\ UNCHANGED << graph, skip_set >>
                ELSE /\ UNCHANGED << pc, result >>
                     /\ disk' = text
                     /\ evals' = Append(evals,
                            Eval(node_to_check, "compared", variant_master_error, accepted))
                     /\ graph' = IF accepted THEN removal.graph ELSE graph
                     /\ skip_set' = skip_set \cup {node_to_check} \cup
                            (IF accepted THEN Range(removal.removed_nodes) ELSE {})

\* Lines 118-127 for a candidate whose text was generated: the write, the
\* build, the comparison with the master error, and skip_set.
Submit(node_to_check, removal, text) ==
    /\ disk' = text
    /\ writes' = writes + 1
    /\ calls' = calls + 1
    /\ \E answer \in Answers(text) :
       \E variant_errors \in { CollectErrors(answer) } :
         LET variant_master_error == First(variant_errors.errors)
             accepted == OptionEq(variant_master_error, master_error)
         IN  /\ oracle' = (text :> answer) @@ oracle
             /\ IF ~variant_errors.ok
                THEN /\ Return(variant_errors.err, "loop")
                     /\ evals' = Append(evals, Eval(node_to_check, "build", None, FALSE))
                     /\ UNCHANGED << graph, skip_set >>
                ELSE /\ UNCHANGED << pc, result >>
                     /\ evals' = Append(evals,
                            Eval(node_to_check, "compared", variant_master_error, accepted))
                     /\ graph' = IF accepted THEN removal.graph ELSE graph
                     /\ skip_set' = skip_set \cup {node_to_check} \cup
                            (IF accepted THEN Range(removal.removed_nodes) ELSE {})

\* Lines 114-127: one candidate, from the clone to skip_set.insert.
Evaluate ==
    /\ pc = "loop"
    /\ \E next \in { BfsNext(bfs, graph) } :
       /\ next.node # None
       /\ next.node[1] \notin skip_set
       /\ bfs' = next.bfs
       /\ \E removal \in { RemoveNode(graph, next.node[1]) } :
          \E generated \in { Generate(removal.graph, tree, tree.root_node[1],
                                      ix_to_ast_node) } :
              /\ ix_to_ast_node' = generated.map
              /\ IF generated.status # "ok"
                 THEN /\ Return(Panic(generated.status), "loop")
                      /\ evals' = Append(evals, Eval(next.node[1],
                             IF generated.status = "err" THEN "generate" ELSE "table",
                             None, FALSE))
                      /\ UNCHANGED << disk, oracle, graph, skip_set, writes, calls >>
                 ELSE Submit(next.node[1], removal, generated.text)
    /\ UNCHANGED << pvars, gvars, file, master_error, tree >>

\* Lines 130-135: the walker is exhausted; the final answer is written.
Finalize ==
    /\ pc = "loop"
    /\ BfsNext(bfs, graph).node = None
    /\ \E final_answer \in { Generate(graph, tree, tree.root_node[1], ix_to_ast_node) } :
           /\ ix_to_ast_node' = final_answer.map
           /\ IF final_answer.status # "ok"
              THEN /\ Return(Panic(final_answer.status), "finalize")
                   /\ UNCHANGED << disk, writes >>
              ELSE /\ Return("Ok", "finalize")
                   /\ disk' = final_answer.text
                   /\ writes' = writes + 1
    /\ UNCHANGED << pvars, gvars, file, oracle, master_error, tree, graph, bfs, skip_set,
                    calls, evals >>

Next == Seed \/ Skip \/ Evaluate \/ Finalize

Spec == Init /\ [][Next]_vars

\* search is run again, as a new process, on the file a search that
\* returned Ok left on disk; the build driver answers as before.
Again ==
    /\ pc = "done"
    /\ previous = None
    /\ result # None /\ result[1].value = "Ok"
    /\ previous' = Some(disk)
    /\ pc' = "start" /\ result' = None
    /\ master_error' = None /\ tree' = SyntaxTreeNew
    /\ graph' = [live |-> {}, out |-> << >>] /\ bfs' = BfsNew(0)
    /\ skip_set' = {} /\ ix_to_ast_node' = << >> /\ writes' = 0 /\ calls' = 0
    /\ evals' = << >>
    /\ UNCHANGED << pvars, removals, reparsed, file, disk, oracle >>

AgainNext == Next \/ Again

AgainSpec == Init /\ [][AgainNext]_vars

\* ------------------------------------------------- the seed build, line by line
\* search on the project of one function, `fn f() { a = 2; }`, whose seed
\* build prints any stream of at most MaxLines lines: BuildErros::try_from
\* runs its loop a line at a time, and search goes on to the loop or returns.
SeedFile == << [fn |-> TRUE, body |-> << "assign" >>] >>

ParseInit ==
    /\ stream \in Streams
    /\ pos = 0
    /\ parser = ParserStart
    /\ parsed = None
    /\ SearchStart(SeedFile)

\* The loop body on the next line; `?` leaves the loop at once.
ParseStep ==
    /\ parsed = None
    /\ ~parser.failed
    /\ pos < Len(stream)
    /\ parser' = ParseLine(parser, stream[pos + 1])
    /\ pos' = pos + 1
    /\ UNCHANGED << stream, parsed, svars, gvars >>

\* try_from returns: Err(UnmatchedLocationInformation) or Ok(errors).
ParseReturn ==
    /\ parsed = None
    /\ parser.failed \/ pos = Len(stream)
    /\ parsed' = Some(IF parser.failed THEN [ok |-> FALSE, errors |-> << >>]
                      ELSE [ok |-> TRUE, errors |-> parser.errors])
    /\ UNCHANGED << stream, pos, parser, svars, gvars >>

\* collect_errors returns what try_from returned, and search goes on.
SeedParsed ==
    /\ parsed # None
    /\ SeedOn(Outcome(FALSE, stream),
              IF parsed[1].ok THEN [ok |-> TRUE, err |-> "", errors |-> parsed[1].errors]
              ELSE [ok |-> FALSE, err |-> "CargoOutputParseError", errors |-> << >>])
    /\ UNCHANGED pvars

ParseNext == ParseStep \/ ParseReturn \/ SeedParsed

ParseSpec == ParseInit /\ [][ParseNext]_vars

\* ------------------------------------------------- builder, remover, generator
\* syn::parse_str on a text. A statement printed with its semicolon, or a
\* block, ends where it is printed to end. An expression printed without
\* semicolon is the tail of its block when nothing follows; when an array
\* follows, the two read as one index expression (written here as a
\* number no syntax node of the walk has); before anything else the
\* parser reports an error. The parse tree of a text that parses is its
\* items, statements and semicolons (spans are not compared).
IndexExpr(expr, index, walk) == expr * (Len(walk) + 1) + index

RECURSIVE ParseStmts(_, _)
ParseStmts(block, walk) ==
    IF block = << >> THEN Some(<< >>)
    ELSE LET head == Head(block)
             ends == \/ head.semi
                     \/ head.node <= Len(walk) /\ walk[head.node].kind = "ExprBlock"
         IN  IF ends \/ Len(block) = 1
             THEN LET rest == ParseStmts(Tail(block), walk)
                  IN  IF rest = None THEN None ELSE Some(<< head >> \o rest[1])
             ELSE LET next == block[2]
                  IN  IF next.node <= Len(walk) /\ walk[next.node].kind = "ExprArray"
                      THEN ParseStmts(<< [node |-> IndexExpr(head.node, next.node, walk),
                                          semi |-> next.semi] >>
                                      \o SubSeq(block, 3, Len(block)), walk)
                      ELSE None

RECURSIVE ParseItems(_, _)
ParseItems(text, walk) ==
    IF text = << >> THEN Some(<< >>)
    ELSE LET block == ParseStmts(Head(text).block, walk)
             rest == ParseItems(Tail(text), walk)
         IN  IF block = None \/ rest = None THEN None
             ELSE Some(<< [sig |-> Head(text).sig, block |-> block[1]] >> \o rest[1])

\* AbstractSyntaxTree::parse: Some(tree), or None when unwrap panics.
Parse(text, walk) == ParseItems(text, walk)

\* The files followed through every removal: one vertex fewer than the
\* files searched.
GenFiles == AllFilesWithin(MaxVertices - 1)

\* A file is parsed and its graph built; vertices are removed from the
\* graph with NodeRemover::remove_node; a new CodeGenerator generates the
\* text of the graph; the text is parsed again.
GenInit ==
    /\ stream = << >> /\ pos = 0 /\ parser = ParserStart /\ parsed = None
    /\ \E f \in GenFiles : SearchStart(f)

\* GraphBuilder::visit_file on the parsed file.
Build ==
    /\ pc = "start"
    /\ \E t \in { VisitFile(file) } :
           /\ tree' = t
           /\ graph' = [live |-> t.live, out |-> t.out]
    /\ pc' = "built"
    /\ UNCHANGED << pvars, gvars, result, file, disk, oracle, master_error, bfs,
                    skip_set, ix_to_ast_node, writes, calls, evals >>

\* NodeRemover::remove_node(&mut graph, node_ix) for a vertex of the graph.
Removal(node, before, removed_nodes) ==
    [node |-> node, before |-> before, removed_nodes |-> removed_nodes]
Remove ==
    /\ pc = "built"
    /\ Len(removals) < MaxRemovals
    /\ \E node_ix \in graph.live :
       \E removal \in { RemoveNode(graph, node_ix) } :
           /\ graph' = removal.graph
           /\ removals' = Append(removals, Removal(node_ix, graph, removal.removed_nodes))
    /\ UNCHANGED << pvars, reparsed, previous, pc, result, file, disk, oracle, master_error, tree,
                    bfs, skip_set, ix_to_ast_node, writes, calls, evals >>

\* CodeGenerator::new().generate(&graph, root): it returns Ok(text) or a
\* CodeGeneratorError, or panics; indexing the graph with a removed root
\* panics.
GenerateNew ==
    /\ pc = "built"
    /\ pc' = "generated"
    /\ IF tree.root_node[1] \notin graph.live
       THEN /\ result' = Some(Exit("Panic(NoEntry)", "generate"))
            /\ UNCHANGED << disk, ix_to_ast_node >>
       ELSE \E generated \in { Generate(graph, tree, tree.root_node[1], << >>) } :
               /\ ix_to_ast_node' = generated.map
               /\ IF generated.status = "ok"
                  THEN /\ result' = Some(Exit("Ok", "generate"))
                       /\ disk' = generated.text
                  ELSE /\ result' = Some(Exit(IF generated.status = "err"
                                               THEN "Err(CodeGeneratorError)"
                                               ELSE "Panic(NoEntry)", "generate"))
                       /\ UNCHANGED disk
    /\ UNCHANGED << pvars, gvars, file, oracle, master_error, tree, graph, bfs,
                    skip_set, writes, calls, evals >>

\* AbstractSyntaxTree::parse on the generated text.
Reparse ==
    /\ pc = "generated"
    /\ result = Some(Exit("Ok", "generate"))
    /\ pc' = "reparsed"
    /\ reparsed' = Some(Parse(disk, Walk(file)))
    /\ UNCHANGED << pvars, removals, previous, result, file, disk, oracle, master_error, tree,
                    graph, bfs, skip_set, ix_to_ast_node, writes, calls, evals >>

GenNext == Build \/ Remove \/ GenerateNew \/ Reparse

GenSpec == GenInit /\ [][GenNext]_vars

\* ------------------------------------------------- properties of search
\* Equality as oracle signatures: both codes present and equal, or both
\* absent and the error lines equal.
SameSignature(a, b) ==
    IF a.error_code # None \/ b.error_code # None
    THEN a.error_code # None /\ b.error_code # None /\ a.error_code = b.error_code
    ELSE a.error_src = b.error_src

\* An answer of the build driver whose first error record has the master
\* error's signature.
Reproduces(answer) ==
    LET built == CollectErrors(answer)
    IN  /\ built.ok
        /\ built.errors # << >>
        /\ SameSignature(built.errors[1], master_error[1])

Last(s) == s[Len(s)]
Finalized == result = Some(Exit("Ok", "finalize"))

\* C1 (as stated): every candidate whose variant build was compared with the
\* master error was accepted exactly when the first error of the variant
\* build and the master error are equal as oracle signatures.
C1_AcceptedBySignature ==
    \A i \in 1..Len(evals) :
        evals[i].step = "compared" =>
            (evals[i].accepted <=>
                /\ evals[i].variant # None
                /\ SameSignature(evals[i].variant[1], master_error[1]))

\* C2 (as stated): when search has finalized, the build driver's answer for
\* the text then on disk, where it has given one, has a first error record
\* with the master error's signature.
C2_FinalTextReproduces ==
    (Finalized /\ disk \in DOMAIN oracle) => Reproduces(oracle[disk])

\* C3: search terminates, evaluating no vertex twice. No vertex is a
\* candidate twice, the root never is, and the loop builds the project at
\* most once per non-root vertex of the original graph; search has returned
\* exactly when no vertex is left to the walker and the final text is
\* written; and every step of the loop takes one vertex from those the
\* walker has still to return (the queued ones and the undiscovered ones).
C3_Left == Len(bfs.stack) + Cardinality(tree.live \ bfs.discovered)
C3_EachVertexOnce ==
    /\ \A i, j \in 1..Len(evals) : evals[i].node = evals[j].node => i = j
    /\ pc \in {"start", "loop", "done"}
    /\ pc = "done" <=> result # None
    /\ pc = "loop" => tree.live # {}
    /\ tree.live # {} =>
          /\ tree.root_node # None
          /\ \A i \in 1..Len(evals) :
                evals[i].node \in tree.live \ {tree.root_node[1]}
          /\ calls - 1 <= Cardinality(tree.live) - 1
          /\ calls - 1 <= Len(evals)
          /\ Len(evals) + C3_Left <= Cardinality(tree.live) - 1
C3_Progress ==
    \/ pc = "start"
    \/ pc = "loop" /\ pc' = "done"
    \/ pc = "loop" /\ pc' = "loop" /\ C3_Left' = C3_Left - 1
C3_Terminates == []C3_EachVertexOnce /\ [][C3_Progress]_vars

C3_Witness ==
    /\ Finalized
    /\ Len(evals) >= 3
    /\ \E i \in 1..Len(evals) : ~evals[i].accepted
    /\ \E i \in 1..Len(evals) : evals[i].accepted

\* C4: right after a candidate is accepted, the text on disk is the text
\* the generator gives for the accepted clone, now the master graph, and the
\* build driver's answer for it has a first error with the master error's
\* signature.
C4_AcceptedTextOnDisk ==
    (pc = "loop" /\ evals # << >> /\ Last(evals).accepted) =>
        /\ LET again == Generate(graph, tree, tree.root_node[1], ix_to_ast_node)
           IN  again.status = "ok" /\ again.text = disk
        /\ disk \in DOMAIN oracle
        /\ Reproduces(oracle[disk])

C4_Witness ==
    /\ pc = "loop"
    /\ Len(evals) >= 2
    /\ Last(evals).accepted
    /\ disk # OrigText(file)

\* C5 (as stated): a candidate for which generate returned an error is in
\* the skip set as a rejected one is, and search is still in its loop.
C5_RegenerationFailureRejects ==
    \A i \in 1..Len(evals) :
        evals[i].step = "generate" => pc = "loop" /\ evals[i].node \in skip_set

\* C7: once the seed build has answered with no error record, search has
\* returned Ok, the source file was never written and still holds its first
\* text, and the project was built that one time only.
SeedHasNoRecords ==
    /\ pc # "start"
    /\ LET built == CollectErrors(oracle[OrigText(file)])
       IN  built.ok /\ built.errors = << >>
C7_NoErrorsNoWrite ==
    SeedHasNoRecords =>
        /\ result = Some(Exit("Ok", "seed"))
        /\ writes = 0
        /\ calls = 1
        /\ disk = OrigText(file)

C7_Witness ==
    /\ SeedHasNoRecords
    /\ result = Some(Exit("Ok", "seed"))
    /\ file # << >>

\* ------------------------------------------------- properties of the parser
\* The lines of a stream the parser acts on, and for a line the nearest
\* such line before it and after it (0 when there is none).
Significant(line) == IsErrorLine(line) \/ IsLocationLine(line)
Max(S) == CHOOSE x \in S : \A y \in S : y <= x
PrevSignificant(s, j) ==
    LET before == { i \in 1..(j - 1) : Significant(s[i]) }
    IN  IF before = {} THEN 0 ELSE Max(before)
NextSignificant(s, i) ==
    LET after == { j \in (i + 1)..Len(s) : Significant(s[j]) }
    IN  IF after = {} THEN 0 ELSE Min(after)

\* An error line is located when the next line the parser acts on is a
\* location line, and immediately located when the very next line is one.
ErrorLinesAt(s) == { i \in 1..Len(s) : IsErrorLine(s[i]) }
Located(s, i) ==
    /\ IsErrorLine(s[i])
    /\ NextSignificant(s, i) # 0
    /\ IsLocationLine(s[NextSignificant(s, i)])
ImmediatelyLocated(s, i) ==
    IsErrorLine(s[i]) /\ i < Len(s) /\ IsLocationLine(s[i + 1])
LocatedAt(s) == { i \in 1..Len(s) : Located(s, i) }

\* A location line with no error line pending: none before it, or a
\* location line between it and the last error line.
HasUnmatchedLocation(s) ==
    \E j \in 1..Len(s) :
        /\ IsLocationLine(s[j])
        /\ PrevSignificant(s, j) = 0 \/ IsLocationLine(s[PrevSignificant(s, j)])

RECURSIVE Ascending(_)
Ascending(S) == IF S = {} THEN << >> ELSE << Min(S) >> \o Ascending(S \ {Min(S)})

\* The error line and the path of the record of the located error line i.
RecordOf(s, i) == [error_src |-> s[i], source_file |-> Some(<< s[NextSignificant(s, i)][2] >>)]
SrcAndFile(record) == [error_src |-> record.error_src, source_file |-> record.source_file]

SeedDone == pc # "start"
FirstErrorUnlocated ==
    /\ ErrorLinesAt(stream) # {}
    /\ ~Located(stream, Min(ErrorLinesAt(stream)))

\* C6 (as stated): when the first error line of the seed build's stream has
\* no location line, search has failed with ErrorSourceFileIsMissing.
C6_MissingErrorLocation ==
    (SeedDone /\ FirstErrorUnlocated) =>
        result = Some(Exit("ErrorSourceFileIsMissing", "seed"))

\* C6 (amended): search never fails with ErrorSourceFileIsMissing. When the
\* stream parses and its first error line has no location line before the
\* next error line or the end, that line gives no record: the master error
\* is the first error line that has one, and with no such line search
\* returns Ok as for a build without errors.
C6_UnlocatedFirstErrorIsDropped ==
    SeedDone =>
        /\ result # Some(Exit("ErrorSourceFileIsMissing", "seed"))
        /\ (FirstErrorUnlocated /\ ~HasUnmatchedLocation(stream)) =>
              IF LocatedAt(stream) = {}
              THEN master_error = None /\ result = Some(Exit("Ok", "seed"))
              ELSE /\ master_error # None
                   /\ SrcAndFile(master_error[1]) = RecordOf(stream, Min(LocatedAt(stream)))

C6_Witness ==
    /\ SeedDone
    /\ FirstErrorUnlocated
    /\ master_error # None
    /\ master_error[1].error_src # stream[Min(ErrorLinesAt(stream))]

\* C8: a stream with a location line that has no pending error record
\* makes try_from fail and return no record, and the search that got this
\* stream from a build has returned the parse error, that build its last.
C8_UnmatchedLocationIsFatal ==
    /\ (parsed # None /\ HasUnmatchedLocation(stream)) =>
            parsed = Some([ok |-> FALSE, errors |-> << >>])
    /\ \A text \in DOMAIN oracle :
          (~oracle[text].io /\ HasUnmatchedLocation(oracle[text].out)) =>
              /\ TryFrom(oracle[text].out) = [ok |-> FALSE, errors |-> << >>]
              /\ text = disk
              /\ result # None
              /\ result[1].value = "CargoOutputParseError"

C8_Witness ==
    /\ result = Some(Exit("CargoOutputParseError", "seed"))
    /\ parsed = Some([ok |-> FALSE, errors |-> << >>])
    /\ parser.errors # << >>
    /\ \E j \in 2..Len(stream) :
            IsLocationLine(stream[j]) /\ IsLocationLine(stream[PrevSignificant(stream, j)])

\* C9 (as stated): try_from returns no more records than the stream has
\* error lines with a location line as the very next line.
C9_OnlyImmediatelyLocated ==
    (parsed # None /\ parsed[1].ok) =>
        Len(parsed[1].errors) <=
            Cardinality({ i \in 1..Len(stream) : ImmediatelyLocated(stream, i) })

\* C9 (amended): try_from succeeds exactly on the streams without an
\* unmatched location line, and then returns one record for each error line
\* whose next error or location line is a location line, in stream order,
\* with that error line and that location's path; lines that are neither
\* may stand between the two, and an error line followed by another error
\* line or by no location line gives no record.
C9_LocatedErrorsAreEmitted ==
    parsed # None =>
        /\ parsed[1].ok = ~HasUnmatchedLocation(stream)
        /\ parsed[1].ok =>
              LET located == Ascending(LocatedAt(stream))
                  errors == parsed[1].errors
              IN  /\ Len(errors) = Len(located)
                  /\ \A k \in 1..Len(errors) :
                        SrcAndFile(errors[k]) = RecordOf(stream, located[k])

C9_Witness ==
    /\ parsed # None
    /\ parsed[1].ok
    /\ Len(parsed[1].errors) = 1
    /\ \E i \in 1..Len(stream) :
            Located(stream, i) /\ ~ImmediatelyLocated(stream, i)

\* The code in brackets between the keyword and the first colon of an
\* error line, None when there is no bracket there.
BracketedCode(line) ==
    LET head == SplitFirst(line, Colon)
        from == AfterFirst(head, OpenBracket)
    IN  IF from = None \/ AfterFirst(from[1], CloseBracket) = None THEN None
        ELSE Some(SplitFirst(from[1], CloseBracket))

\* C10 (as stated): the pending record of an error line has the code that
\* stands in brackets between the keyword and the first colon of the line,
\* and no code when no bracket stands there.
C10_CodeBeforeColon ==
    parser.current_error # None =>
        parser.current_error[1].error_code =
            BracketedCode(parser.current_error[1].error_src)

\* The location lines of a stream and, for one of them, the most recent
\* error line before it (0 when there is none).
LocationLinesAt(s) == { j \in 1..Len(s) : IsLocationLine(s[j]) }
ErrorLineBefore(s, j) ==
    LET before == { i \in 1..(j - 1) : IsErrorLine(s[i]) }
    IN  IF before = {} THEN 0 ELSE Max(before)

\* The text of a location line between its `>` and the first colon after.
PathAfterArrow(line) == SplitFirst(Tail(line), Colon)

TrackedOnly(f) ==
    \A i \in 1..Len(f) :
        /\ f[i].fn
        /\ \A k \in 1..Len(f[i].body) : f[i].body[k] \in {"letarr", "assign", "array"}

Intact == removals = << >>

\* C12: for a source of tracked kinds only, the text generated from the
\* graph as built, parsed again, is the parse tree of the source, its items
\* as many and in the same order.
C12_RoundTrip ==
    (pc = "reparsed" /\ Intact /\ TrackedOnly(file))
        => reparsed = Some(Parse(OrigText(file), Walk(file)))

GeneratedOk == pc \in {"generated", "reparsed"} /\ result = Some(Exit("Ok", "generate"))

\* The functions of the Item vertices still under the root, in the order
\* of the root's edges (the order of the items in the source).
SurvivingItems ==
    LET items == graph.out[tree.root_node[1]]
    IN  [i \in 1..Len(items) |-> tree.payload[items[i]] + 1]

\* C13: the generated file holds the functions of the Item vertices still
\* under the root, in the order of the root's edges, which is their order
\* in the source; on the graph as built and after removals.
C13_ItemsInEdgeOrder ==
    GeneratedOk => [i \in 1..Len(disk) |-> disk[i].sig] = SurvivingItems

\* The graph of the candidate evaluated last: the master graph without the
\* candidate's subtree (an accepted candidate's subtree is gone already).
LastClone == RemoveNode(graph, Last(evals).node).graph

\* The function vertices of a graph that have no Block child, or whose
\* Block has no child.
EmptyFunctions(g) ==
    { f \in g.live :
        /\ tree.kind[f] = "ItemFn"
        /\ \A b \in Range(g.out[f]) : g.out[b] = << >> }

Evaluated ==
    /\ pc \in {"loop", "done"}
    /\ evals # << >>
    /\ result = None \/ result[1].at = "loop"

\* The parent of a vertex in the graph as built.
ParentOf(v) == CHOOSE p \in DOMAIN tree.out : v \in Range(tree.out[p])

\* The candidate evaluated last was the Block of a function, or the last
\* child left of the Block of a function.
LeavesFunctionEmpty ==
    LET v == Last(evals).node
        p == ParentOf(v)
    IN  \/ tree.kind[v] = "Block" /\ tree.kind[p] = "ItemFn"
        \/ /\ tree.kind[p] = "Block"
           /\ tree.kind[ParentOf(p)] = "ItemFn"
           /\ LastClone.out[p] = << >>

Submitted == Last(evals).step \in {"build", "compared"}

\* C14: a candidate that leaves a function without Block child, or the
\* Block of a function without child, is generated without failure and its
\* text is given to the build; and a text given to the build holds over an
\* empty block every function of the candidate's graph that has no Block
\* child or whose Block has no child.
C14_EmptyBlockIsSubmitted ==
    Evaluated =>
        /\ LeavesFunctionEmpty => Submitted
        /\ Submitted =>
              \A f \in EmptyFunctions(LastClone) :
                  \E i \in 1..Len(disk) :
                      disk[i].sig = tree.payload[f] /\ disk[i].block = << >>

\* Both cases have been candidates: the Block of a function, then the only
\* statement of a function.
C14_Witness ==
    /\ Evaluated /\ Submitted
    /\ tree.kind[Last(evals).node] # "Block"
    /\ LeavesFunctionEmpty
    /\ \E i \in 1..Len(evals) :
          /\ tree.kind[evals[i].node] = "Block"
          /\ tree.kind[ParentOf(evals[i].node)] = "ItemFn"
          /\ evals[i].step = "compared"

\* ------------------------------------------------- properties of the remover
\* The vertices reachable from the vertices of S along the edges of g.
RECURSIVE Reach(_, _)
Reach(g, S) ==
    LET more == S \cup UNION { Range(g.out[x]) : x \in S }
    IN  IF more = S THEN S ELSE Reach(g, more)

\* The graph after the i-th removal.
After(i) == IF i < Len(removals) THEN removals[i + 1].before ELSE graph

\* C15: remove_node(graph, v) on a tree returns v and its descendants, each
\* once, v first; they are no longer in the graph nor reachable from the
\* root; the other vertices, and the edges between them in their order,
\* are as before.
C15_RemovesExactlyTheSubtree ==
    \A i \in 1..Len(removals) :
        LET r == removals[i]
            gone == Reach(r.before, {r.node})
            after == After(i)
        IN  /\ Range(r.removed_nodes) = gone
            /\ Len(r.removed_nodes) = Cardinality(gone)
            /\ r.removed_nodes[1] = r.node
            /\ after.live = r.before.live \ gone
            /\ Reach(after, after.live) \cap gone = {}
            /\ \A x \in after.live :
                  after.out[x] = SelectSeq(r.before.out[x], LAMBDA y : y \notin gone)

C15_Witness ==
    /\ removals # << >>
    /\ Len(Last(removals).removed_nodes) >= 3
    /\ Cardinality(graph.live) >= 3
    /\ \E x \in graph.live : graph.out[x] # Last(removals).before.out[x]

\* ------------------------------------------------- properties of the builder
Parents(v) == { p \in tree.live : v \in Range(tree.out[p]) }
Occurrences(s, v) == Cardinality({ i \in 1..Len(s) : s[i] = v })

\* C16: the graph built from a parsed file is a tree: one vertex is
\* recorded as root and it is the SourceRoot vertex; every other vertex has
\* exactly one parent (and one edge from it); every vertex is reachable
\* from the root.
C16_BuiltGraphIsTree ==
    pc # "start" =>
        /\ tree.root_node # None
        /\ LET root == tree.root_node[1]
           IN  /\ root \in tree.live
               /\ { v \in tree.live : tree.kind[v] = "SourceRoot" } = {root}
               /\ Parents(root) = {}
               /\ \A v \in tree.live \ {root} :
                     /\ Cardinality(Parents(v)) = 1
                     /\ \A p \in Parents(v) : Occurrences(tree.out[p], v) = 1
               /\ Reach(tree, {root}) = tree.live

C16_Witness ==
    /\ pc = "built"
    /\ Cardinality(tree.live) >= 8
    /\ Len(tree.out[tree.root_node[1]]) >= 2
    /\ \E v \in tree.live : tree.kind[v] = "ExprArray" /\ tree.kind[ParentOf(v)] = "LocalStmt"

\* ------------------------------------------------- properties of a second search
SecondDone == previous # None /\ pc = "done"

\* C17: a search run on the file a completed search left, with the same
\* build driver, accepts no candidate and leaves on disk the text it
\* started from.
C17_SecondSearchChangesNothing ==
    SecondDone =>
        /\ \A i \in 1..Len(evals) : ~evals[i].accepted
        /\ disk = previous[1]

\* ------------------------------------------------- properties of the candidates
\* The depth of a vertex in the graph as built.
RECURSIVE DepthOf(_)
DepthOf(v) == IF v = tree.root_node[1] THEN 0 ELSE 1 + DepthOf(ParentOf(v))

\* C18: the candidates are evaluated in breadth-first order from the root,
\* the root not among them, and of two children of one parent the one
\* earlier in the text (whose edge was added first) is evaluated first.
C18_SiblingsInTextualOrder ==
    /\ \A i \in 1..Len(evals) : evals[i].node # tree.root_node[1]
    /\ \A i, j \in 1..Len(evals) :
          i < j =>
              /\ DepthOf(evals[i].node) <= DepthOf(evals[j].node)
              /\ ParentOf(evals[i].node) = ParentOf(evals[j].node)
                    => tree.payload[evals[i].node] < tree.payload[evals[j].node]

\* The graph built for the file has the root and nothing else.
RootOnly == tree.root_node # None /\ tree.live = {tree.root_node[1]}

Accepted == { evals[i].node : i \in { k \in 1..Len(evals) : evals[k].accepted } }

\* The graph as built without the vertices of S and their descendants.
Without(S) ==
    LET gone == Reach(tree, S)
    IN  [live |-> tree.live \ gone,
         out |-> [x \in DOMAIN tree.out |->
                    IF x \in gone THEN << >>
                    ELSE SelectSeq(tree.out[x], LAMBDA y : y \notin gone)]]

\* C20: at every point of the loop the master graph is the graph as built
\* without the subtrees of the candidates accepted so far, and of no other:
\* an acceptance takes the subtree out, a rejection leaves the master
\* graph as it was.
C20_MasterIsOriginalMinusAccepted ==
    pc \in {"loop", "done"} /\ tree.root_node # None => graph = Without(Accepted)

C20_Witness ==
    /\ pc = "loop"
    /\ Cardinality(Accepted) >= 2
    /\ ~Last(evals).accepted
    /\ Cardinality(graph.live) >= 3
    /\ Cardinality(tree.live \ graph.live) >= 4

\* ------------------------------------------------- properties of skip_set
\* What holds of skip_set at every point of the loop: it has every
\* candidate whose iteration ran to its end, every vertex under an accepted
\* candidate, and so every vertex of the built graph that the master graph
\* has no longer.
C21_SkipCoversEvaluatedAndRemoved ==
    (pc \in {"loop", "done"} /\ tree.root_node # None) =>
        /\ \A i \in 1..Len(evals) :
              /\ evals[i].step = "compared" => evals[i].node \in skip_set
              /\ evals[i].accepted => Reach(tree, {evals[i].node}) \subseteq skip_set
        /\ tree.live \ graph.live \subseteq skip_set

\* One step of the loop: skip_set loses nothing, and a vertex that becomes
\* a candidate (remove_node is called on it) is in the master graph.
C21_SkipGrows ==
    /\ skip_set \subseteq skip_set'
    /\ Len(evals') > Len(evals) => Last(evals').node \in graph.live

\* C21: skip_set only grows; after an iteration it holds the candidate,
\* accepted or not, and after an acceptance the vertices removed with it;
\* so every vertex absent from the master graph is in skip_set and
\* remove_node is not called on a vertex absent from the master graph.
C21_SkipSet == []C21_SkipCoversEvaluatedAndRemoved /\ [][C21_SkipGrows]_vars

\* Vertices removed with an accepted candidate have come off the queue and
\* been skipped; a rejected candidate is in skip_set too.
C21_Witness ==
    /\ pc = "loop"
    /\ \E i \in 1..Len(evals) :
          /\ evals[i].accepted
          /\ Cardinality(Reach(tree, {evals[i].node})) >= 3
          /\ Reach(tree, {evals[i].node}) \cap bfs.discovered # {evals[i].node}
    /\ \E i \in 1..Len(evals) : ~evals[i].accepted /\ evals[i].node \in skip_set
    /\ bfs.stack = << >>

\* ------------------------------------------------- properties of the master graph as a tree
MasterParents(v) == { p \in graph.live : v \in Range(graph.out[p]) }

\* C22: at every point of the loop the master graph is a tree with the
\* recorded root: the root is in it and is never a candidate of removal,
\* every other vertex has exactly one parent and is reachable from the
\* root, and nothing is in the graph that the root does not reach.
C22_MasterIsTree ==
    (pc \in {"loop", "done"} /\ tree.root_node # None) =>
        LET root == tree.root_node[1]
        IN  /\ root \in graph.live
            /\ \A i \in 1..Len(evals) : evals[i].node # root
            /\ MasterParents(root) = {}
            /\ \A v \in graph.live \ {root} :
                  /\ Cardinality(MasterParents(v)) = 1
                  /\ \A p \in MasterParents(v) : Occurrences(graph.out[p], v) = 1
            /\ Reach(graph, {root}) = graph.live

C22_Witness ==
    /\ pc = "loop"
    /\ Cardinality(Accepted) >= 2
    /\ \E v \in Accepted : tree.out[v] # << >> /\ ParentOf(v) # tree.root_node[1]
    /\ Cardinality(graph.live) >= 4

\* ------------------------------------------------- properties of the end of the loop
\* The walker has returned None: the loop is over.
LoopEnded ==
    /\ tree.root_node # None
    /\ \/ pc = "loop" /\ bfs.stack = << >>
       \/ pc = "done" /\ result[1].at = "finalize"

EvaluationsOf(v) == { i \in 1..Len(evals) : evals[i].node = v }

\* C23: when the loop is over, every vertex of the master graph but the
\* root was a candidate exactly once, and was rejected.
C23_SurvivorsWereRejected ==
    LoopEnded =>
        \A v \in graph.live \ {tree.root_node[1]} :
            /\ Cardinality(EvaluationsOf(v)) = 1
            /\ \A i \in EvaluationsOf(v) : evals[i].step = "compared" /\ ~evals[i].accepted

\* A rejected vertex, its rejected child and grandchild are left, beside
\* an accepted removal.
C23_Witness ==
    /\ LoopEnded
    /\ Accepted # {}
    /\ \E v \in graph.live : DepthOf(v) >= 3
    /\ Cardinality(graph.live) >= 5

\* ------------------------------------------------- properties of the statement lists
VertexAt(at) == CHOOSE v \in DOMAIN tree.payload : tree.payload[v] = at

\* The payloads of the children left under the Block of function f, in the
\* order of the Block's edges; none when f has no Block.
SurvivingStmts(f) ==
    IF graph.out[f] = << >> THEN << >>
    ELSE LET children == graph.out[graph.out[f][1]]
         IN  [k \in 1..Len(children) |-> tree.payload[children[k]]]

\* C24: a removal leaves the other children of every vertex in the order
\* they had, and the statements generated for a function are the children
\* left under its Block in that order, which is their order in the source.
C24_StatementsInTextualOrder ==
    /\ \A p \in graph.live :
          graph.out[p] = SelectSeq(tree.out[p], LAMBDA y : y \in graph.live)
    /\ GeneratedOk =>
          \A i \in 1..Len(disk) :
              [k \in 1..Len(disk[i].block) |-> disk[i].block[k].node]
                  = SurvivingStmts(VertexAt(disk[i].sig))

\* A statement between two others was removed and the text generated.
C24_Witness ==
    /\ GeneratedOk
    /\ removals # << >>
    /\ \E i \in 1..Len(disk) :
          /\ Len(disk[i].block) >= 2
          /\ tree.payload[removals[1].node] > disk[i].block[1].node
          /\ tree.payload[removals[1].node] < disk[i].block[2].node
          /\ ParentOf(removals[1].node) = ParentOf(VertexAt(disk[i].block[1].node))

\* ------------------------------------------------- properties of items without function
\* The Item vertices under the root that have no function child.
ItemsWithoutFunction ==
    { v \in graph.live :
        /\ tree.kind[v] = "Item"
        /\ \A c \in Range(graph.out[v]) : tree.kind[c] # "ItemFn" }

GenerateReturned == pc \in {"generated", "reparsed"} /\ tree.root_node[1] \in graph.live

\* C25: generate on a graph in which an Item has no function child returns
\* an error value: it does not panic and returns no text.
C25_ItemWithoutFunctionIsAnError ==
    (GenerateReturned /\ ItemsWithoutFunction # {})
        => result = Some(Exit("Err(CodeGeneratorError)", "generate"))

\* ------------------------------------------------- properties of the built graph
\* The places of the walk of the file that hold a syntax node of a tracked kind.
TrackedPlaces == { at \in 1..Len(Walk(file)) : Walk(file)[at].kind \in AstNode }

\* The syntax node at place a encloses the one at place b.
Encloses(a, b) ==
    LET walk == Walk(file)
    IN  /\ a < b
        /\ \A k \in (a + 1)..b : walk[k].depth > walk[a].depth

\* The place of the nearest tracked node that encloses the node at place b
\* (the root encloses every other node).
NearestTracked(b) ==
    Max({ a \in TrackedPlaces : Encloses(a, b) })

\* C26: the built graph has one vertex for each syntax node of a tracked
\* kind and no other, of the node's kind; the parent of a vertex is the
\* vertex of the nearest tracked node enclosing its node; the builder's
\* current parent after the walk is the one it started with (none); and
\* Dfs from the root returns the vertices in the order of the text (root,
\* item, function, block for `fn main() {}`).
C26_OneVertexPerTrackedNode ==
    (pc = "built" /\ Intact) =>
        LET walk == Walk(file)
            root == tree.root_node[1]
            dfs == DfsCollect(tree, << root >>, {})
        IN  /\ { tree.payload[v] : v \in tree.live } = TrackedPlaces
            /\ Cardinality(tree.live) = Cardinality(TrackedPlaces)
            /\ \A v \in tree.live : tree.kind[v] = walk[tree.payload[v]].kind
            /\ \A v \in tree.live \ {root} :
                  Parents(v) = { VertexAt(NearestTracked(tree.payload[v])) }
            /\ tree.current_node = None
            /\ Range(dfs) = tree.live
            /\ \A i, j \in 1..Len(dfs) :
                  i < j => tree.payload[dfs[i]] < tree.payload[dfs[j]]
            /\ file = << [fn |-> TRUE, body |-> << >>] >> =>
                  [i \in 1..Len(dfs) |-> tree.kind[dfs[i]]]
                      = << "SourceRoot", "Item", "ItemFn", "Block" >>

\* A file has been built that has untracked nodes between a vertex and
\* its parent, a block in a block, and two items.
C26_Witness ==
    /\ pc = "built"
    /\ \E v \in tree.live \ {tree.root_node[1]} :
          tree.kind[v] = "ExprArray" /\ tree.payload[ParentOf(v)] < tree.payload[v] - 1
    /\ \E v \in tree.live \ {tree.root_node[1]} :
          tree.kind[v] = "Block" /\ tree.kind[ParentOf(v)] = "Block"
    /\ Len(tree.out[tree.root_node[1]]) >= 2

\* ------------------------------------------------- properties of the generator's table
\* What a new CodeGenerator returns for the graph of the candidate
\* evaluated last.
FreshOnLastClone == Generate(LastClone, tree, tree.root_node[1], << >>)

\* C27: what generate returns for a candidate's graph, called with the
\* CodeGenerator the search keeps across candidates, is what a new
\* CodeGenerator returns for that graph: the same text when a text was
\* written, the same failure otherwise.
C27_GenerateIgnoresEarlierCalls ==
    Evaluated =>
        \/ /\ Submitted
           /\ FreshOnLastClone.status = "ok"
           /\ FreshOnLastClone.text = disk
        \/ /\ Last(evals).step = "generate"
           /\ FreshOnLastClone.status = "err"
        \/ /\ Last(evals).step = "table"
           /\ FreshOnLastClone.status = "panic"

\* ------------------------------------------------- properties of a failing build
\* The build of the candidate evaluated last failed: the driver could not
\* be run, or its diagnostics did not parse.
BuildFailedInLoop == pc = "done" /\ evals # << >> /\ Last(evals).step = "build"

\* C28: when the build of a candidate fails, search returns that error
\* from the loop, without the write of Finalize, and the file holds the
\* text written for that candidate: the text of the last write.
C28_BuildFailureLeavesCandidateText ==
    BuildFailedInLoop =>
        /\ result # None /\ result[1].at = "loop"
        /\ result[1].value \in {"IOError", "CargoOutputParseError"}
        /\ disk \in DOMAIN oracle
        /\ ~CollectErrors(oracle[disk]).ok
        /\ result[1].value = CollectErrors(oracle[disk]).err
        /\ disk = Generate(LastClone, tree, tree.root_node[1], ix_to_ast_node).text
        /\ writes = Len(evals)

\* Both failures, after an acceptance, with a text on disk that is not the
\* text of the master graph.
C28_Witness ==
    /\ BuildFailedInLoop
    /\ result[1].value = "CargoOutputParseError"
    /\ Accepted # {}
    /\ disk # Generate(graph, tree, tree.root_node[1], ix_to_ast_node).text

================================================================
